---------------------------- MODULE Spec2Model ----------------------------
(***************************************************************************)
(* Model of the lazy-image vs sharp benchmark harness.                     *)
(*                                                                         *)
(* backend/src/index.js holds two definitions of the server: the current   *)
(* one (lines 1-800: file based calls, heap polling, SSIM/PSNR metrics)    *)
(* and an earlier one (lines 801-1296: buffer based calls, no heap         *)
(* measurement, no metrics).  The field impl of a request says which of    *)
(* the two serves it (1 = lines 1-800, 2 = lines 801-1296).                *)
(*                                                                         *)
(* Units.  performance.now() is counted in half milliseconds and           *)
(* process.memoryUsage().heapUsed in units of 1/200 MB, so that the        *)
(* Math.round(...) calls of the code round something.  memoryUsed is kept  *)
(* in hundredths of a MB (the code keeps two decimals).                    *)
(***************************************************************************)
EXTENDS Integers, Sequences, FiniteSets, TLC

(* ------------------------------ bounds -------------------------------- *)

\* Environment events in one behaviour: a throwing library call, a failing
\* metric computation, half a millisecond passing during a timed section, a
\* change of the heap counter.
MaxEvents == 1

\* The heap counter takes the values 0..MaxHeap.
MaxHeap == 1

\* The longest raw data array handed to calculatePSNR.
MaxPixels == 2

\* The largest time (ms) and size (bytes) of an entry in a rendered row.
MaxMeasure == 2

\* The uploads the page starts in one behaviour.
MaxUploads == 2

(* --------------------------- program constants ------------------------- *)

\* JavaScript null, as in `time: null, size: null`.
null == -1

targetWidth == 800

targetHeight == 600

\* 50 * 1024 * 1024 bytes, counted in MB.
ZeroCopyRefLimitMB == 50

Libraries == {"lazyImage", "sharp"}

allowedTypes == {"image/jpeg", "image/png", "image/webp", "image/avif"}

InvalidFileTypeMessage == "Invalid file type. Only JPEG, PNG, WebP, AVIF are allowed."

(* ------------------------- the operation suite ------------------------- *)

CategoryNames ==
  << "Zero-Copy Conversion (No Resize)",
     "Resize + Format Conversion",
     "Advanced Image Operations" >>

CategoryHighlight == << "lazyImage", "none", "sharp" >>

\* The runSingleTest configurations in the order runZeroCopyTests,
\* runResizeTests and runAdvancedTests push them.  lazy and sharp give what
\* lazyImageFn and sharpFn ask of their library: the output format, the
\* quality, the resize arguments (<<>> when the image is not resized) and,
\* for sharp, the extra operation.
Operations ==
  << [operation |-> "WebP Conversion (No Resize)", category |-> 1,
      lazyImageSupported |-> TRUE, sharpSupported |-> TRUE, outputExt |-> ".webp",
      lazy  |-> [format |-> "webp", quality |-> 80, resize |-> <<>>],
      sharp |-> [format |-> "webp", quality |-> 80, resize |-> <<>>, extra |-> "none"]],
     [operation |-> "AVIF Conversion (No Resize)", category |-> 1,
      lazyImageSupported |-> TRUE, sharpSupported |-> TRUE, outputExt |-> ".avif",
      lazy  |-> [format |-> "avif", quality |-> 60, resize |-> <<>>],
      sharp |-> [format |-> "avif", quality |-> 60, resize |-> <<>>, extra |-> "none"]],
     [operation |-> "JPEG Compression (No Resize)", category |-> 1,
      lazyImageSupported |-> TRUE, sharpSupported |-> TRUE, outputExt |-> ".jpg",
      lazy  |-> [format |-> "jpeg", quality |-> 80, resize |-> <<>>],
      sharp |-> [format |-> "jpeg", quality |-> 80, resize |-> <<>>, extra |-> "none"]],
     [operation |-> "Resize + WebP", category |-> 2,
      lazyImageSupported |-> TRUE, sharpSupported |-> TRUE, outputExt |-> "_resize.webp",
      lazy  |-> [format |-> "webp", quality |-> 80, resize |-> <<targetWidth, null>>],
      sharp |-> [format |-> "webp", quality |-> 80,
                 resize |-> <<targetWidth, targetHeight>>, extra |-> "none"]],
     [operation |-> "Resize + AVIF", category |-> 2,
      lazyImageSupported |-> TRUE, sharpSupported |-> TRUE, outputExt |-> "_resize.avif",
      lazy  |-> [format |-> "avif", quality |-> 60, resize |-> <<targetWidth, null>>],
      sharp |-> [format |-> "avif", quality |-> 60,
                 resize |-> <<targetWidth, targetHeight>>, extra |-> "none"]],
     [operation |-> "Resize + JPEG", category |-> 2,
      lazyImageSupported |-> TRUE, sharpSupported |-> TRUE, outputExt |-> "_resize.jpg",
      lazy  |-> [format |-> "jpeg", quality |-> 80, resize |-> <<targetWidth, null>>],
      sharp |-> [format |-> "jpeg", quality |-> 80,
                 resize |-> <<targetWidth, targetHeight>>, extra |-> "none"]],
     [operation |-> "PNG Compression", category |-> 3,
      lazyImageSupported |-> FALSE, sharpSupported |-> TRUE, outputExt |-> ".png",
      lazy  |-> [format |-> "none", quality |-> null, resize |-> <<>>],
      sharp |-> [format |-> "png", quality |-> null, resize |-> <<>>, extra |-> "compressionLevel9"]],
     [operation |-> "90 Rotation", category |-> 3,
      lazyImageSupported |-> FALSE, sharpSupported |-> TRUE, outputExt |-> "_rotate.jpg",
      lazy  |-> [format |-> "none", quality |-> null, resize |-> <<>>],
      sharp |-> [format |-> "jpeg", quality |-> 80, resize |-> <<>>, extra |-> "rotate90"]],
     [operation |-> "Crop (Center 50%)", category |-> 3,
      lazyImageSupported |-> FALSE, sharpSupported |-> TRUE, outputExt |-> "_crop.jpg",
      lazy  |-> [format |-> "none", quality |-> null, resize |-> <<>>],
      sharp |-> [format |-> "jpeg", quality |-> 80, resize |-> <<>>, extra |-> "extract"]],
     [operation |-> "Blur (sigma: 5)", category |-> 3,
      lazyImageSupported |-> FALSE, sharpSupported |-> TRUE, outputExt |-> "_blur.jpg",
      lazy  |-> [format |-> "none", quality |-> null, resize |-> <<>>],
      sharp |-> [format |-> "jpeg", quality |-> 80, resize |-> <<>>, extra |-> "blur5"]],
     [operation |-> "Grayscale", category |-> 3,
      lazyImageSupported |-> FALSE, sharpSupported |-> TRUE, outputExt |-> "_gray.jpg",
      lazy  |-> [format |-> "none", quality |-> null, resize |-> <<>>],
      sharp |-> [format |-> "jpeg", quality |-> 80, resize |-> <<>>, extra |-> "grayscale"]] >>

NumOps == Len(Operations)

\* lazyImageFn is null for the advanced operations (lazyImageFn: null).
HasLazyImageFn(i) == Operations[i].category # 3

(* ------------------------------ arithmetic ----------------------------- *)

Max(a, b) == IF a >= b THEN a ELSE b

\* Math.round of a value given in halves: h/2 rounded, ties towards +Infinity.
RoundHalves(h) == (h + 1) \div 2

\* a / b rounded to the nearest integer (a >= 0, b > 0).
RoundDiv(a, b) == (2 * a + b) \div (2 * b)


(* ------------------------- the external libraries ---------------------- *)

\* sharp's resize(tw, th, { fit: 'inside' }): the aspect ratio is kept and the
\* image is made as large as fits in tw x th.
SharpResizeInside(w, h, tw, th) ==
  IF tw * h <= th * w
    THEN << tw, Max(1, RoundDiv(h * tw, w)) >>
    ELSE << Max(1, RoundDiv(w * th, h)), th >>

\* lazy-image's resize(width, height): with height null the width is taken and
\* the height follows the aspect ratio ("Maintain aspect ratio (specify width
\* only)"); with both given the image is fitted inside the box.
LazyImageResize(w, h, tw, th) ==
  IF th = null
    THEN << tw, Max(1, RoundDiv(h * tw, w)) >>
    ELSE SharpResizeInside(w, h, tw, th)

\* The width and height an invocation asks its library to produce.
OutputDims(lib, args, w, h) ==
  IF args.resize = <<>> THEN << w, h >>
  ELSE IF lib = "lazyImage"
    THEN LazyImageResize(w, h, args.resize[1], args.resize[2])
    ELSE SharpResizeInside(w, h, args.resize[1], args.resize[2])

\* The length of the file (or buffer) an encoder produces: fixed by the
\* library, the operation and the input.
OutputLength(i, lib, image) ==
  image.sizeMB * 100 + i * 10 + (IF lib = "sharp" THEN 1 ELSE 0)

\* What ssim.js and calculatePSNR report for an output: psnr in hundredths of
\* a dB (toFixed(2)), ssim in ten-thousandths (toFixed(4)).
MeasuredMetrics(i, lib) ==
  [psnr |-> 3000 + 10 * i + (IF lib = "sharp" THEN 1 ELSE 0),
   ssim |-> 9000 + 10 * i + (IF lib = "sharp" THEN 1 ELSE 0)]

(* --------------------------- the metric functions ---------------------- *)

\* The byte values the raw data arrays draw from.
PixelValues == {0, 1, 255}

\* The arrays of at most n bytes.
ArraysUpTo(n) == UNION { [1..k -> PixelValues] : k \in 0..n }

\* An argument of calculatePSNR: an array, or null / undefined.
NoData == [present |-> FALSE, data |-> << >>]

DataArguments == {NoData} \cup { [present |-> TRUE, data |-> a] : a \in ArraysUpTo(MaxPixels) }

Min(a, b) == IF a <= b THEN a ELSE b

\* The sum the loop of calculatePSNR accumulates in mse over the first n bytes.
RECURSIVE SquaredError(_, _, _)
SquaredError(refData, targetData, n) ==
  IF n = 0 THEN 0
  ELSE SquaredError(refData, targetData, n - 1)
         + (refData[n] - targetData[n]) * (refData[n] - targetData[n])

\* calculatePSNR(refData, targetData).  The value is 0, Infinity, NaN (mse is
\* 0 / 0 for arrays of length 0, and NaN === 0 is false), or the decibels of a
\* positive mean squared error sse / length.
calculatePSNR(refData, targetData) ==
  IF ~refData.present \/ ~targetData.present
       \/ Len(refData.data) # Len(targetData.data)
    THEN [kind |-> "zero"]
    ELSE LET length == Min(Len(refData.data), Len(targetData.data))
             sse == SquaredError(refData.data, targetData.data, length) IN
         IF length = 0 THEN [kind |-> "NaN"]
         ELSE IF sse = 0 THEN [kind |-> "Infinity"]
         ELSE [kind |-> "dB", sse |-> sse, length |-> length]

\* calculateMetrics: psnr === Infinity ? 100 : parseFloat(psnr.toFixed(2))
ReportedPSNR(psnr) ==
  CASE psnr.kind = "Infinity" -> [kind |-> "number", value |-> 100]
    [] psnr.kind = "zero"     -> [kind |-> "number", value |-> 0]
    [] psnr.kind = "NaN"      -> [kind |-> "NaN"]
    [] OTHER -> [kind |-> "dB, two decimals", sse |-> psnr.sse, length |-> psnr.length]

(* ------------------------------- requests ------------------------------ *)

\* 10 * 1024 * 1024 * 1024 bytes, counted in MB.
FileSizeLimitMB == 10240

NoImage == [format |-> "none", width |-> 0, height |-> 0, sizeMB |-> 0]

\* The POST /api/benchmark requests a behaviour draws from.  kind "file" is a
\* multipart body with one file part in `field`; the others carry no usable
\* file part.
Uploads ==
  { [kind |-> "file", field |-> "image", mimetype |-> "image/jpeg",
     image |-> [format |-> "jpeg", width |-> 1600, height |-> 1200, sizeMB |-> 2]],
    [kind |-> "file", field |-> "image", mimetype |-> "image/png",
     image |-> [format |-> "png", width |-> 600, height |-> 800, sizeMB |-> 1]],
    [kind |-> "file", field |-> "image", mimetype |-> "image/webp",
     image |-> [format |-> "webp", width |-> 1000, height |-> 1000, sizeMB |-> 50]],
    [kind |-> "file", field |-> "image", mimetype |-> "image/avif",
     image |-> [format |-> "avif", width |-> 2000, height |-> 1000, sizeMB |-> 3]],
    [kind |-> "file", field |-> "image", mimetype |-> "image/gif",
     image |-> [format |-> "gif", width |-> 100, height |-> 100, sizeMB |-> 1]],
    [kind |-> "file", field |-> "image", mimetype |-> "application/pdf",
     image |-> NoImage],
    [kind |-> "file", field |-> "image", mimetype |-> "image/jpeg",
     image |-> [format |-> "jpeg", width |-> 1600, height |-> 1200, sizeMB |-> 10241]],
    [kind |-> "file", field |-> "image", mimetype |-> "image/gif",
     image |-> [format |-> "gif", width |-> 100, height |-> 100, sizeMB |-> 10241]],
    [kind |-> "file", field |-> "photo", mimetype |-> "image/png",
     image |-> [format |-> "png", width |-> 600, height |-> 800, sizeMB |-> 1]],
    [kind |-> "toomany", field |-> "image", mimetype |-> "image/png", image |-> NoImage],
    [kind |-> "malformed", field |-> "image", mimetype |-> "none", image |-> NoImage],
    [kind |-> "nofile", field |-> "none", mimetype |-> "none", image |-> NoImage] }

NoError == [code |-> "none", message |-> ""]

\* Mutant of fileFilter: every MIME type is let through.
fileFilter_AcceptsAll(file) == NoError

\* The fileFilter of the multer configuration: the error it passes to cb.
fileFilter(file) ==
  IF file.mimetype \in allowedTypes
    THEN NoError
    ELSE [code |-> "none", message |-> InvalidFileTypeMessage]

\* upload.single('image'): the error multer hands to the callback.  A file part
\* in another field is refused before the filter runs, the filter runs before
\* the body is read, and the size limit strikes while the body is read.
UploadError(u) ==
  CASE u.kind = "malformed" -> [code |-> "none", message |-> ""]
    [] u.kind = "toomany"   -> [code |-> "LIMIT_FILE_COUNT", message |-> "Too many files"]
    [] u.kind = "nofile"    -> NoError
    [] u.field # "image"    -> [code |-> "LIMIT_UNEXPECTED_FILE", message |-> "Unexpected field"]
    [] fileFilter(u) # NoError -> fileFilter(u)
    [] u.image.sizeMB > FileSizeLimitMB -> [code |-> "LIMIT_FILE_SIZE", message |-> "File too large"]
    [] OTHER -> NoError

\* Whether multer failed the upload (err is set in the callback).
UploadFailed(u) == u.kind \in {"malformed", "toomany"} \/ UploadError(u) # NoError

\* req.file after a successful upload.
HasFile(u) == u.kind = "file"

\* Mutant of UploadErrorResponse: LIMIT_FILE_SIZE is answered like any other
\* upload error.
UploadErrorResponse_SizeAs400(err) ==
  [status |-> 400,
   error |-> IF err.message # "" THEN err.message ELSE "File upload error"]

\* The response of the upload callback to a multer error.
UploadErrorResponse(err) ==
  CASE err.code = "LIMIT_FILE_SIZE" ->
         [status |-> 413, error |-> "File size too large. Maximum size is 10GB."]
    [] err.code = "LIMIT_FILE_COUNT" ->
         [status |-> 400, error |-> "Too many files. Only one file is allowed."]
    [] err.code = "LIMIT_UNEXPECTED_FILE" ->
         [status |-> 400, error |-> "Unexpected file field."]
    [] OTHER ->
         [status |-> 400,
          error |-> IF err.message # "" THEN err.message ELSE "File upload error"]

(* -------------------------------- state -------------------------------- *)

VARIABLES
  pc,           \* per request: where its handler stands
  req,          \* per request: the upload and the server definition serving it
  responses,    \* per request: the responses sent, in order
  outputDirs,   \* the sessions whose output directory exists
  files,        \* per request: the files in its output directory
  refs,         \* per request: zeroCopyRef and resizeRef
  opIdx,        \* per request: the operation its runSingleTest call is on
  result,       \* per request: the result object of the running runSingleTest
  catResults,   \* per request: the results array of the running category
  results,      \* per request: results.categories
  call,         \* per request: the locals of the running library block
  monitors,     \* per request: the memoryMonitor intervals never cleared
  invocations,  \* per request: the library functions invoked so far
  metricCalls,  \* per request: the calculateMetrics calls made so far
  inFlight,     \* the library calls in progress
  now,          \* performance.now(), in half milliseconds
  heapUsed,     \* process.memoryUsage().heapUsed, in 1/200 MB
  events,       \* environment events so far
  timeline,     \* per request: the steps of the running library block, in order
  refData,      \* calculatePSNR: its first argument
  targetData,   \* calculatePSNR: its second argument
  psnr,         \* calculatePSNR: its return value
  reported,     \* calculateMetrics: the psnr of its result
  row,          \* CategorySection: the result object of the row being rendered
  flags,        \* CategorySection: the winner flags computed for the row
  loading,      \* App: useState(false)
  uploadProgress, \* App: useState(0)
  error,        \* App: useState(null), the message shown
  shown,        \* App: the results state, useState(null)
  selectedPreview, \* App: useState(null)
  selectedFile, \* App: useState(null)
  xhrs,         \* per handleUpload call: where the call stands
  submitted     \* the files sent to POST /api/benchmark, in order

\* The state of the server.
serverVars == << pc, req, responses, outputDirs, files, refs, opIdx, result, catResults,
                 results, call, monitors, invocations, metricCalls, inFlight, now,
                 heapUsed, events, timeline >>

\* The state of a call of the metric functions on its own.
metricVars == << refData, targetData, psnr, reported >>

\* The state of the rendering of one row of a result table.
rowVars == << row, flags >>

\* The state of the page.
appVars == << loading, uploadProgress, error, shown, selectedPreview, selectedFile,
              xhrs, submitted >>

\* What no step of the server touches.
otherVars == << metricVars, rowVars, appVars >>

vars == << serverVars, otherVars >>

\* No value yet.
Pending == [kind |-> "pending"]

\* A reference that was not prepared (null).
NoRef == [width |-> 0, height |-> 0]

Requests == {"r1"}

NoReq == [upload |-> [kind |-> "none"], impl |-> 0]

NoCall == [lib |-> "none"]

NoResult == [operation |-> "none"]

\* No call of the metric functions is under way.
MetricsIdle ==
  /\ refData = NoData /\ targetData = NoData
  /\ psnr = Pending /\ reported = Pending

\* No row is being rendered.
RowIdle == row = NoResult /\ flags = Pending

\* null, for the message, the results, the selection and the file of the page.
NoMessage == ""

NoResults == [present |-> FALSE, categories |-> << >>]

NoPreview == [category |-> null, result |-> null]

NoFile == [name |-> "", type |-> "", sizeMB |-> 0]

\* A handleUpload call that was not made.
NoXhr == [phase |-> "none"]

\* The page as it is first rendered.
AppIdle ==
  /\ loading = FALSE
  /\ uploadProgress = 0
  /\ error = NoMessage
  /\ shown = NoResults
  /\ selectedPreview = NoPreview
  /\ selectedFile = NoFile
  /\ xhrs = [u \in 1..MaxUploads |-> NoXhr]
  /\ submitted = << >>

Init ==
  /\ pc = [r \in Requests |-> "idle"]
  /\ req = [r \in Requests |-> NoReq]
  /\ responses = [r \in Requests |-> <<>>]
  /\ outputDirs = {}
  /\ files = [r \in Requests |-> {}]
  /\ refs = [r \in Requests |-> [zeroCopy |-> NoRef, resize |-> NoRef]]
  /\ opIdx = [r \in Requests |-> 0]
  /\ result = [r \in Requests |-> NoResult]
  /\ catResults = [r \in Requests |-> <<>>]
  /\ results = [r \in Requests |-> <<>>]
  /\ call = [r \in Requests |-> NoCall]
  /\ monitors = [r \in Requests |-> {}]
  /\ invocations = [r \in Requests |-> <<>>]
  /\ metricCalls = [r \in Requests |-> <<>>]
  /\ inFlight = {}
  /\ now = 0
  /\ heapUsed \in 0..MaxHeap
  /\ events = 0
  /\ timeline = [r \in Requests |-> <<>>]
  /\ MetricsIdle
  /\ RowIdle
  /\ AppIdle

(* ---------------------------- the HTTP layer --------------------------- *)

\* A client posts an upload to /api/benchmark.
Arrive(r) ==
  /\ pc[r] = "idle"
  /\ \E u \in Uploads, impl \in {1, 2} :
       req' = [req EXCEPT ![r] = [upload |-> u, impl |-> impl]]
  /\ pc' = [pc EXCEPT ![r] = "upload"]
  /\ UNCHANGED << responses, outputDirs, files, refs, opIdx, result, catResults,
                  results, call, monitors, invocations, metricCalls, inFlight, now, heapUsed, events >>
  /\ UNCHANGED timeline
  /\ UNCHANGED otherVars

\* The first handler of the route: upload.single('image') and its callback.
UploadMiddleware(r) ==
  /\ pc[r] = "upload"
  /\ LET u == req[r].upload IN
       IF UploadFailed(u)
         THEN /\ responses' = [responses EXCEPT
                    ![r] = Append(@, UploadErrorResponse(UploadError(u)))]
              /\ pc' = [pc EXCEPT ![r] = "done"]
         ELSE /\ pc' = [pc EXCEPT ![r] = "handler"]
              /\ UNCHANGED responses
  /\ UNCHANGED << req, outputDirs, files, refs, opIdx, result, catResults,
                  results, call, monitors, invocations, metricCalls, inFlight, now, heapUsed, events >>
  /\ UNCHANGED timeline
  /\ UNCHANGED otherVars

\* The second handler up to its first await: the req.file check, then
\* runBenchmark's mkdirSync and statSync and the start of sharp(..).metadata().
HandleRequest(r) ==
  /\ pc[r] = "handler"
  /\ IF ~HasFile(req[r].upload)
       THEN /\ responses' = [responses EXCEPT
                  ![r] = Append(@, [status |-> 400, error |-> "No image uploaded"])]
            /\ pc' = [pc EXCEPT ![r] = "done"]
            /\ UNCHANGED outputDirs
       ELSE /\ outputDirs' = outputDirs \cup {r}
            /\ pc' = [pc EXCEPT ![r] = "metadata"]
            /\ UNCHANGED responses
  /\ UNCHANGED << req, files, refs, opIdx, result, catResults,
                  results, call, monitors, invocations, metricCalls, inFlight, now, heapUsed, events >>
  /\ UNCHANGED timeline
  /\ UNCHANGED otherVars

(* ----------------------------- runBenchmark ---------------------------- *)

Image(r) == req[r].upload.image

\* An environment fault (a library call that throws) may strike while the
\* event budget lasts.
Faults == IF events < MaxEvents THEN {FALSE, TRUE} ELSE {FALSE}

Cost(b) == IF b THEN 1 ELSE 0

\* What lazyImageFn asks of lazy-image: the earlier definition of the server
\* passes both target dimensions to resize.
lazyImageFn(i, impl) ==
  IF impl = 2 /\ Operations[i].lazy.resize # <<>>
    THEN [Operations[i].lazy EXCEPT !.resize = <<targetWidth, targetHeight>>]
    ELSE Operations[i].lazy

\* Mutant of sharpFn: sharp encodes AVIF at quality 50.
sharpFn_Avif50(i) ==
  IF Operations[i].sharp.format = "avif"
    THEN [Operations[i].sharp EXCEPT !.quality = 50]
    ELSE Operations[i].sharp

sharpFn(i) == Operations[i].sharp

\* Mutant of InitialResult: the lazy-image entry starts as supported.
InitialResult_LazySupported(i) ==
  [operation |-> Operations[i].operation,
   lazyImage |-> [supported |-> TRUE],
   sharp     |-> [supported |-> Operations[i].sharpSupported]]

\* The result object runSingleTest starts from.
InitialResult(i) ==
  [operation |-> Operations[i].operation,
   lazyImage |-> [supported |-> Operations[i].lazyImageSupported],
   sharp     |-> [supported |-> Operations[i].sharpSupported]]

\* if (lazyImageSupported && lazyImageFn)
RunsLazyImage(i) == Operations[i].lazyImageSupported /\ HasLazyImageFn(i)

\* if (sharpSupported && sharpFn)
RunsSharp(i) == Operations[i].sharpSupported

\* Where runSingleTest for operation i begins.
EnterOperation(i) == IF RunsLazyImage(i) THEN "lazy" ELSE "sharp"

\* Mutant of refRaw: every category is handed the resize reference.
refRaw_ResizeForAll(r, c) ==
  IF req[r].impl # 1 THEN NoRef ELSE refs[r].resize

\* The reference raw data runBenchmark hands to the tests of category c;
\* runAdvancedTests passes none, and the earlier definition has none at all.
refRaw(r, c) ==
  CASE req[r].impl # 1 -> NoRef
    [] c = 1 -> refs[r].zeroCopy
    [] c = 2 -> refs[r].resize
    [] OTHER -> NoRef

\* getRawData(inputPath, width, height): the dimensions of the raw data.  With
\* both given the image is resized to them (fit: 'fill').
getRawData(image, width, height) ==
  IF width # null /\ height # null
    THEN [width |-> width, height |-> height]
    ELSE [width |-> image.width, height |-> image.height]

\* runBenchmark: `await sharp(inputPath).metadata()` settles.  When it throws,
\* runBenchmark throws and the handler's catch answers 500.
ReadMetadata(r) ==
  /\ pc[r] = "metadata"
  /\ \E fault \in Faults :
       /\ events' = events + Cost(fault)
       /\ IF fault
            THEN /\ responses' = [responses EXCEPT
                       ![r] = Append(@, [status |-> 500, error |-> "metadata error"])]
                 /\ pc' = [pc EXCEPT ![r] = "done"]
                 /\ UNCHANGED << opIdx, result >>
            ELSE IF req[r].impl = 1
              THEN /\ pc' = [pc EXCEPT ![r] = "refs"]
                   /\ UNCHANGED << responses, opIdx, result >>
              ELSE /\ pc' = [pc EXCEPT ![r] = EnterOperation(1)]
                   /\ opIdx' = [opIdx EXCEPT ![r] = 1]
                   /\ result' = [result EXCEPT ![r] = InitialResult(1)]
                   /\ UNCHANGED responses
  /\ UNCHANGED << req, outputDirs, files, refs, catResults, results, call,
                  monitors, invocations, metricCalls, inFlight, now, heapUsed >>
  /\ UNCHANGED timeline
  /\ UNCHANGED otherVars

\* Mutant of FitsInMemory: the zero-copy reference is read whatever the size.
FitsInMemory_Always(sizeMB) == TRUE

\* originalStats.size < 50 * 1024 * 1024
FitsInMemory(sizeMB) == sizeMB < ZeroCopyRefLimitMB

\* runBenchmark: the preparation of the reference data.  The zero-copy
\* reference is read only for files under 50MB; a throw of either getRawData
\* call is caught and leaves what was not yet assigned null.
PrepareReferences(r) ==
  /\ pc[r] = "refs"
  /\ \E failZeroCopy \in Faults, failResize \in Faults :
       LET small == FitsInMemory(Image(r).sizeMB)
           thrown1 == small /\ failZeroCopy
           thrown2 == ~thrown1 /\ failResize IN
       /\ ~small => ~failZeroCopy
       /\ thrown1 => ~failResize
       /\ events + Cost(thrown1) + Cost(thrown2) <= MaxEvents
       /\ events' = events + Cost(thrown1) + Cost(thrown2)
       /\ refs' = [refs EXCEPT ![r] =
             [zeroCopy |-> IF small /\ ~thrown1
                             THEN getRawData(Image(r), null, null) ELSE NoRef,
              resize   |-> IF ~thrown1 /\ ~thrown2
                             THEN getRawData(Image(r), targetWidth, targetHeight)
                             ELSE NoRef]]
  /\ pc' = [pc EXCEPT ![r] = EnterOperation(1)]
  /\ opIdx' = [opIdx EXCEPT ![r] = 1]
  /\ result' = [result EXCEPT ![r] = InitialResult(1)]
  /\ UNCHANGED << req, responses, outputDirs, files, catResults, results, call,
                  monitors, invocations, metricCalls, inFlight, now, heapUsed >>
  /\ UNCHANGED timeline
  /\ UNCHANGED otherVars

(* ----------------------------- runSingleTest --------------------------- *)

NoMetrics == << >>

\* Mutant of ErrorEntry: the catch block reports a time of 0 instead of null.
ErrorEntry_ZeroTime(message) ==
  [supported |-> TRUE, error |-> message, time |-> 0, size |-> null]

\* The catch blocks of runSingleTest.
ErrorEntry(message) ==
  [supported |-> TRUE, error |-> message, time |-> null, size |-> null]

\* Math.round(endTime - startTime)
ElapsedTime(startTime, endTime) == RoundHalves(endTime - startTime)

\* peakMemory = Math.max(peakMemory, memAfter.heapUsed)
FinalPeak(peakMemory, heapAfter) == Max(peakMemory, heapAfter)

\* Math.max(0, Math.round(memoryUsed / 1024 / 1024 * 100) / 100), with
\* memoryUsed = peakMemory - initialHeapUsed
MemoryUsed(peakMemory, initialHeapUsed) ==
  Max(0, RoundHalves(peakMemory - initialHeapUsed))

\* Mutant of MonitorSample: the callback keeps the latest sample.
MonitorSample_Latest(peakMemory, current) == current

\* The memoryMonitor callback: the new value of peakMemory.
MonitorSample(peakMemory, current) ==
  IF current > peakMemory THEN current ELSE peakMemory

Url(r, lib, i) == [session |-> r, lib |-> lib, op |-> i]

\* result.lazyImage after a successful run of the lazy-image block.
LazyImageEntry(impl, time, avif, size, memoryUsed, url, metrics) ==
  IF impl = 1
    THEN [supported |-> TRUE,
          time |-> time,
          totalTime |-> time + (IF avif > 0 THEN RoundHalves(avif) ELSE 0),
          avifConversionTime |-> IF avif > 0 THEN RoundHalves(avif) ELSE null,
          size |-> size,
          memoryUsed |-> memoryUsed,
          url |-> url] @@ metrics
    ELSE [supported |-> TRUE, time |-> time, size |-> size, url |-> url]

\* Mutant of SharpEntry: the entry carries no memoryUsed.
SharpEntry_NoMemory(impl, time, size, memoryUsed, url, metrics) ==
  [supported |-> TRUE, time |-> time, size |-> size, url |-> url] @@ metrics

\* result.sharp after a successful run of the sharp block.
SharpEntry(impl, time, size, memoryUsed, url, metrics) ==
  IF impl = 1
    THEN [supported |-> TRUE, time |-> time, size |-> size,
          memoryUsed |-> memoryUsed, url |-> url] @@ metrics
    ELSE [supported |-> TRUE, time |-> time, size |-> size, url |-> url]

\* Mutant of calculateMetrics: a failure reaches the entry as an error.
calculateMetrics_Throws(i, lib, failed) ==
  IF failed THEN [error |-> "Metrics calculation failed"] ELSE MeasuredMetrics(i, lib)

\* calculateMetrics(refRaw, outputPath): its catch returns zeros.
calculateMetrics(i, lib, failed) ==
  IF failed THEN [psnr |-> 0, ssim |-> 0] ELSE MeasuredMetrics(i, lib)

\* let metrics = {}; if (refRaw) metrics = await calculateMetrics(...)
Metrics(r, i, lib, failed) ==
  IF refRaw(r, Operations[i].category) # NoRef
    THEN calculateMetrics(i, lib, failed)
    ELSE NoMetrics

\* The calculateMetrics calls so far, with the one a finished block makes.
WithMetricCall(r, i, lib, failed) ==
  IF refRaw(r, Operations[i].category) # NoRef
    THEN Append(metricCalls[r],
                [op |-> i, lib |-> lib, ref |-> refRaw(r, Operations[i].category),
                 failed |-> failed])
    ELSE metricCalls[r]

\* The record of one invocation of lazyImageFn or sharpFn.
Invocation(r, i, lib) ==
  LET args == IF lib = "lazyImage" THEN lazyImageFn(i, req[r].impl) ELSE sharpFn(i) IN
  [op |-> i, lib |-> lib, format |-> args.format, quality |-> args.quality,
   dims |-> OutputDims(lib, args, Image(r).width, Image(r).height)]

\* Mutant of PushResult: a result with a failed library is not pushed.
PushResult_SkipsFailed(array, res) ==
  IF "error" \in DOMAIN res.lazyImage \/ "error" \in DOMAIN res.sharp
    THEN array
    ELSE Append(array, res)

\* results.push(await runSingleTest({...}))
PushResult(array, res) == Append(array, res)

\* runSingleTest returns result: the running category's array takes it, a
\* finished category is pushed to results.categories, and the next
\* runSingleTest call (or the return of runBenchmark) follows.
ReturnResult(r, res) ==
  LET i == opIdx[r]
      c == Operations[i].category
      pushed == PushResult(catResults[r], res)
      lastOfCategory == i = NumOps \/ Operations[i + 1].category # c IN
  /\ IF lastOfCategory
       THEN /\ results' = [results EXCEPT ![r] = Append(@,
                 [name |-> CategoryNames[c], highlight |-> CategoryHighlight[c],
                  results |-> pushed])]
            /\ catResults' = [catResults EXCEPT ![r] = <<>>]
       ELSE /\ catResults' = [catResults EXCEPT ![r] = pushed]
            /\ UNCHANGED results
  /\ IF i = NumOps
       THEN /\ pc' = [pc EXCEPT ![r] = "return"]
            /\ result' = [result EXCEPT ![r] = NoResult]
            /\ UNCHANGED opIdx
       ELSE /\ pc' = [pc EXCEPT ![r] = EnterOperation(i + 1)]
            /\ opIdx' = [opIdx EXCEPT ![r] = i + 1]
            /\ result' = [result EXCEPT ![r] = InitialResult(i + 1)]

\* Mutant of AwaitLazyImageFn: the await is missing and the block goes on to
\* the sharp test while lazy-image still works.
AwaitLazyImageFn_Missing == "sharp"

\* `await lazyImageFn(img, outputPath)`: the block waits for the call to settle.
AwaitLazyImageFn == "lazyCall"

NewCall(lib) ==
  [lib |-> lib, avifConversionTime |-> 0, temp |-> FALSE,
   initialHeapUsed |-> 0, peakMemory |-> 0, startTime |-> 0]

\* The steps of the lazy-image block before the heap sample, in the order the
\* code takes them: the metadata read and, for an AVIF input, the conversion
\* to JPEG (between its own two timestamps in the current definition).
PrepareSteps(impl, convert) ==
  << "metadata" >> \o
  (IF ~convert THEN << >>
   ELSE IF impl = 1 THEN << "conversionStart", "avifConversion", "conversionEnd" >>
   ELSE << "avifConversion" >>)

\* The steps of a block from the heap sample to the call of the library
\* function.  The current definition opens the lazy-image input with
\* ImageEngine.fromPath before startTime is taken and the sharp input with
\* sharp(inputPath) inside sharpFn; the earlier definition opens both inputs
\* from the buffer before startTime.
BeforeCallSteps(lib, impl) ==
  IF impl # 1 THEN << "open", "startTime" >>
  ELSE IF lib = "lazyImage"
    THEN << "heapSample", "setInterval", "open", "startTime" >>
    ELSE << "heapSample", "setInterval", "startTime", "open" >>

\* The steps of the lazy-image block when opening the input throws.
FailedOpenSteps(impl) ==
  IF impl = 1 THEN << "heapSample", "setInterval", "catch" >> ELSE << "catch" >>

\* The steps from the awaited library function to the entry: the function
\* processes and, in the current definition, writes the output file; the
\* earlier definition gets a buffer back and writes it after endTime.
AfterCallSteps(impl, withMetrics) ==
  IF impl = 1
    THEN << "process", "write", "endTime", "clearInterval", "heapSample", "readSize" >>
         \o (IF withMetrics THEN << "metrics" >> ELSE << >>) \o << "entry" >>
    ELSE << "process", "endTime", "write", "entry" >>

\* The lazy-image block up to the heap sample: sharp(inputPath).metadata() and,
\* for an AVIF input, the timed conversion to a temporary JPEG.  The earlier
\* definition converts to a buffer and does not time it.
LazyPrepare(r) ==
  /\ pc[r] = "lazy"
  /\ LET i == opIdx[r]
         convert == Image(r).format = "avif"
         timed == convert /\ req[r].impl = 1 IN
     \E fault \in BOOLEAN, dc \in 0..MaxEvents :
       /\ events + Cost(fault) + dc <= MaxEvents
       /\ (fault \/ ~timed) => dc = 0
       /\ events' = events + Cost(fault) + dc
       /\ now' = now + dc
       /\ timeline' = [timeline EXCEPT ![r] =
             IF fault THEN << "catch" >> ELSE PrepareSteps(req[r].impl, convert)]
       /\ IF fault
            THEN /\ result' = [result EXCEPT ![r].lazyImage = ErrorEntry("lazy-image error")]
                 /\ pc' = [pc EXCEPT ![r] = "sharp"]
                 /\ UNCHANGED << call, files >>
            ELSE /\ call' = [call EXCEPT ![r] =
                       [NewCall("lazyImage") EXCEPT !.avifConversionTime = dc,
                                                    !.temp = timed]]
                 /\ files' = [files EXCEPT
                       ![r] = IF timed THEN @ \cup {<<"temp", i>>} ELSE @]
                 /\ pc' = [pc EXCEPT ![r] = "lazyStart"]
                 /\ UNCHANGED result
  /\ UNCHANGED << req, responses, outputDirs, refs, opIdx, catResults, results,
                  monitors, invocations, metricCalls, inFlight, heapUsed >>
  /\ UNCHANGED otherVars

\* The lazy-image block from the heap sample to the call of lazyImageFn: gc,
\* initialHeapUsed, setInterval, ImageEngine.fromPath (ImageEngine.from in the
\* earlier definition, which samples no heap), startTime, lazyImageFn(...).
\* A throw of fromPath leaves the interval running.
LazyStart(r) ==
  /\ pc[r] = "lazyStart"
  /\ LET i == opIdx[r]
         measured == req[r].impl = 1 IN
     \E fault \in BOOLEAN, h \in 0..MaxHeap :
       /\ ~measured => h = heapUsed
       /\ events + Cost(fault) + Cost(h # heapUsed) <= MaxEvents
       /\ events' = events + Cost(fault) + Cost(h # heapUsed)
       /\ heapUsed' = h
       /\ timeline' = [timeline EXCEPT ![r] = @ \o
             (IF fault THEN FailedOpenSteps(req[r].impl)
                       ELSE BeforeCallSteps("lazyImage", req[r].impl))]
       /\ IF fault
            THEN /\ result' = [result EXCEPT ![r].lazyImage = ErrorEntry("lazy-image error")]
                 /\ monitors' = [monitors EXCEPT
                       ![r] = IF measured THEN @ \cup {<<i, "lazyImage">>} ELSE @]
                 /\ call' = [call EXCEPT ![r] = NoCall]
                 /\ pc' = [pc EXCEPT ![r] = "sharp"]
                 /\ UNCHANGED << invocations, inFlight >>
            ELSE /\ call' = [call EXCEPT ![r] =
                       [@ EXCEPT !.initialHeapUsed = h, !.peakMemory = h,
                                 !.startTime = now]]
                 /\ invocations' = [invocations EXCEPT
                       ![r] = Append(@, Invocation(r, i, "lazyImage"))]
                 /\ inFlight' = inFlight \cup {<<r, i, "lazyImage">>}
                 /\ pc' = [pc EXCEPT ![r] = AwaitLazyImageFn]
                 /\ UNCHANGED << result, monitors >>
  /\ UNCHANGED << req, responses, outputDirs, files, refs, opIdx, catResults,
                  results, metricCalls, now >>
  /\ UNCHANGED otherVars

\* The setInterval callback of the running block fires (every 10ms while the
\* library call is awaited).
Poll(r) ==
  /\ pc[r] \in {"lazyCall", "sharpCall"}
  /\ req[r].impl = 1
  /\ \E h \in 0..MaxHeap :
       /\ events + Cost(h # heapUsed) <= MaxEvents
       /\ events' = events + Cost(h # heapUsed)
       /\ heapUsed' = h
       /\ call' = [call EXCEPT ![r].peakMemory = MonitorSample(@, h)]
  /\ UNCHANGED << pc, req, responses, outputDirs, files, refs, opIdx, result,
                  catResults, results, monitors, invocations, metricCalls, inFlight, now >>
  /\ UNCHANGED timeline
  /\ UNCHANGED otherVars

\* The measurements taken when a library call has resolved, as the code
\* computes them from the locals of the block.
Measured(c, endTime, heapAfter) ==
  [time |-> ElapsedTime(c.startTime, endTime),
   memoryUsed |-> MemoryUsed(FinalPeak(c.peakMemory, heapAfter), c.initialHeapUsed)]

\* `await lazyImageFn(img, outputPath)` settles.  Resolved: endTime,
\* clearInterval, the heap sample, the size read, the metrics, the entry and the
\* removal of the temporary file.  Rejected: the catch block; the interval and
\* the temporary file stay.
LazyEnd(r) ==
  /\ pc[r] = "lazyCall"
  /\ LET i == opIdx[r]
         c == call[r]
         impl == req[r].impl
         measured == impl = 1
         withMetrics == refRaw(r, Operations[i].category) # NoRef IN
     \E fault \in BOOLEAN, d \in 0..MaxEvents, h \in 0..MaxHeap, mfail \in BOOLEAN :
       /\ (fault \/ ~measured) => h = heapUsed
       /\ fault => d = 0
       /\ (fault \/ ~withMetrics) => ~mfail
       /\ events + Cost(fault) + d + Cost(h # heapUsed) + Cost(mfail) <= MaxEvents
       /\ events' = events + Cost(fault) + d + Cost(h # heapUsed) + Cost(mfail)
       /\ now' = now + d
       /\ heapUsed' = h
       /\ timeline' = [timeline EXCEPT ![r] = @ \o
             (IF fault THEN << "catch" >> ELSE AfterCallSteps(impl, withMetrics))]
       /\ IF fault
            THEN /\ result' = [result EXCEPT ![r].lazyImage = ErrorEntry("lazy-image error")]
                 /\ monitors' = [monitors EXCEPT
                       ![r] = IF measured THEN @ \cup {<<i, "lazyImage">>} ELSE @]
                 /\ UNCHANGED << files, metricCalls >>
            ELSE /\ metricCalls' = [metricCalls EXCEPT ![r] = WithMetricCall(r, i, "lazyImage", mfail)]
                 /\ result' = [result EXCEPT ![r].lazyImage =
                       LazyImageEntry(impl, Measured(c, now + d, h).time,
                                      c.avifConversionTime,
                                      OutputLength(i, "lazyImage", Image(r)),
                                      Measured(c, now + d, h).memoryUsed,
                                      Url(r, "lazyImage", i),
                                      Metrics(r, i, "lazyImage", mfail))]
                 /\ files' = [files EXCEPT
                       ![r] = (@ \cup {<<"lazyImage", i>>}) \ {<<"temp", i>>}]
                 /\ UNCHANGED monitors
  /\ inFlight' = inFlight \ {<<r, opIdx[r], "lazyImage">>}
  /\ call' = [call EXCEPT ![r] = NoCall]
  /\ pc' = [pc EXCEPT ![r] = "sharp"]
  /\ UNCHANGED << req, responses, outputDirs, refs, opIdx, catResults, results,
                  invocations >>
  /\ UNCHANGED otherVars

\* The sharp block up to the call of sharpFn: gc, initialHeapUsed, setInterval,
\* startTime, sharpFn(...).  Without a sharp function runSingleTest returns.
SharpStart(r) ==
  /\ pc[r] = "sharp"
  /\ LET i == opIdx[r]
         measured == req[r].impl = 1 IN
     IF RunsSharp(i)
       THEN \E h \in 0..MaxHeap :
              /\ ~measured => h = heapUsed
              /\ events + Cost(h # heapUsed) <= MaxEvents
              /\ events' = events + Cost(h # heapUsed)
              /\ heapUsed' = h
              /\ timeline' = [timeline EXCEPT ![r] = BeforeCallSteps("sharp", req[r].impl)]
              /\ call' = [call EXCEPT ![r] =
                    [NewCall("sharp") EXCEPT !.initialHeapUsed = h, !.peakMemory = h,
                                             !.startTime = now]]
              /\ invocations' = [invocations EXCEPT
                    ![r] = Append(@, Invocation(r, i, "sharp"))]
              /\ inFlight' = inFlight \cup {<<r, i, "sharp">>}
              /\ pc' = [pc EXCEPT ![r] = "sharpCall"]
              /\ UNCHANGED << opIdx, result, catResults, results >>
       ELSE /\ ReturnResult(r, result[r])
            /\ UNCHANGED << call, invocations, inFlight, heapUsed, events, timeline >>
  /\ UNCHANGED << req, responses, outputDirs, files, refs, monitors, metricCalls, now >>
  /\ UNCHANGED otherVars

\* `await sharpFn(inputPath, outputPath)` settles, and runSingleTest returns.
SharpEnd(r) ==
  /\ pc[r] = "sharpCall"
  /\ LET i == opIdx[r]
         c == call[r]
         impl == req[r].impl
         measured == impl = 1
         withMetrics == refRaw(r, Operations[i].category) # NoRef IN
     \E fault \in BOOLEAN, d \in 0..MaxEvents, h \in 0..MaxHeap, mfail \in BOOLEAN :
       /\ (fault \/ ~measured) => h = heapUsed
       /\ fault => d = 0
       /\ (fault \/ ~withMetrics) => ~mfail
       /\ events + Cost(fault) + d + Cost(h # heapUsed) + Cost(mfail) <= MaxEvents
       /\ events' = events + Cost(fault) + d + Cost(h # heapUsed) + Cost(mfail)
       /\ now' = now + d
       /\ heapUsed' = h
       /\ timeline' = [timeline EXCEPT ![r] = @ \o
             (IF fault THEN << "catch" >> ELSE AfterCallSteps(impl, withMetrics))]
       /\ IF fault
            THEN /\ ReturnResult(r, [result[r] EXCEPT !.sharp = ErrorEntry("sharp error")])
                 /\ monitors' = [monitors EXCEPT
                       ![r] = IF measured THEN @ \cup {<<i, "sharp">>} ELSE @]
                 /\ UNCHANGED << files, metricCalls >>
            ELSE /\ metricCalls' = [metricCalls EXCEPT ![r] = WithMetricCall(r, i, "sharp", mfail)]
                 /\ ReturnResult(r, [result[r] EXCEPT !.sharp =
                       SharpEntry(impl, Measured(c, now + d, h).time,
                                  OutputLength(i, "sharp", Image(r)),
                                  Measured(c, now + d, h).memoryUsed,
                                  Url(r, "sharp", i),
                                  Metrics(r, i, "sharp", mfail))])
                 /\ files' = [files EXCEPT ![r] = @ \cup {<<"sharp", i>>}]
                 /\ UNCHANGED monitors
  /\ inFlight' = inFlight \ {<<r, opIdx[r], "sharp">>}
  /\ call' = [call EXCEPT ![r] = NoCall]
  /\ UNCHANGED << req, responses, outputDirs, refs, invocations >>
  /\ UNCHANGED otherVars

\* runBenchmark returns results and the handler sends them: res.json(results).
SendResults(r) ==
  /\ pc[r] = "return"
  /\ responses' = [responses EXCEPT
        ![r] = Append(@, [status |-> 200, original |-> Image(r),
                          categories |-> results[r]])]
  /\ pc' = [pc EXCEPT ![r] = "done"]
  /\ UNCHANGED << req, outputDirs, files, refs, opIdx, result, catResults, results,
                  call, monitors, invocations, metricCalls, inFlight, now, heapUsed, events >>
  /\ UNCHANGED timeline
  /\ UNCHANGED otherVars

Next ==
  \/ \E r \in DOMAIN pc : Arrive(r)
  \/ \E r \in DOMAIN pc : UploadMiddleware(r)
  \/ \E r \in DOMAIN pc : HandleRequest(r)
  \/ \E r \in DOMAIN pc : ReadMetadata(r)
  \/ \E r \in DOMAIN pc : PrepareReferences(r)
  \/ \E r \in DOMAIN pc : LazyPrepare(r)
  \/ \E r \in DOMAIN pc : LazyStart(r)
  \/ \E r \in DOMAIN pc : Poll(r)
  \/ \E r \in DOMAIN pc : LazyEnd(r)
  \/ \E r \in DOMAIN pc : SharpStart(r)
  \/ \E r \in DOMAIN pc : SharpEnd(r)
  \/ \E r \in DOMAIN pc : SendResults(r)

Spec == Init /\ [][Next]_vars

\* The handlers run on the event loop and every awaited promise settles (the
\* libraries terminate): a step that can be taken is eventually taken.
FairSpec == Spec /\ WF_vars(Next)


(* --------------------------- concurrent uploads ------------------------ *)

\* Two clients post to /api/benchmark; the route handler is async and nothing
\* serialises the requests.
ConcurrentRequests == {"r1", "r2"}

ConcurrentInit ==
  /\ pc = [r \in ConcurrentRequests |-> "idle"]
  /\ req = [r \in ConcurrentRequests |-> NoReq]
  /\ responses = [r \in ConcurrentRequests |-> <<>>]
  /\ outputDirs = {}
  /\ files = [r \in ConcurrentRequests |-> {}]
  /\ refs = [r \in ConcurrentRequests |-> [zeroCopy |-> NoRef, resize |-> NoRef]]
  /\ opIdx = [r \in ConcurrentRequests |-> 0]
  /\ result = [r \in ConcurrentRequests |-> NoResult]
  /\ catResults = [r \in ConcurrentRequests |-> <<>>]
  /\ results = [r \in ConcurrentRequests |-> <<>>]
  /\ call = [r \in ConcurrentRequests |-> NoCall]
  /\ monitors = [r \in ConcurrentRequests |-> {}]
  /\ invocations = [r \in ConcurrentRequests |-> <<>>]
  /\ metricCalls = [r \in ConcurrentRequests |-> <<>>]
  /\ inFlight = {}
  /\ now = 0
  /\ heapUsed = 0
  /\ events = 0
  /\ timeline = [r \in ConcurrentRequests |-> <<>>]
  /\ MetricsIdle
  /\ RowIdle
  /\ AppIdle

\* The uploads of the concurrent clients: images the server benchmarks.
BenchmarkedUploads == { u \in Uploads : ~UploadFailed(u) /\ u.image.format = "jpeg" }

\* A client posts an image to the route of the current server definition.
ConcurrentArrive(r) ==
  /\ Arrive(r)
  /\ req'[r].upload \in BenchmarkedUploads
  /\ req'[r].impl = 1

ConcurrentNext ==
  \/ \E r \in DOMAIN pc : ConcurrentArrive(r)
  \/ \E r \in DOMAIN pc : UploadMiddleware(r)
  \/ \E r \in DOMAIN pc : HandleRequest(r)
  \/ \E r \in DOMAIN pc : ReadMetadata(r)
  \/ \E r \in DOMAIN pc : PrepareReferences(r)
  \/ \E r \in DOMAIN pc : LazyPrepare(r)
  \/ \E r \in DOMAIN pc : LazyStart(r)
  \/ \E r \in DOMAIN pc : Poll(r)
  \/ \E r \in DOMAIN pc : LazyEnd(r)
  \/ \E r \in DOMAIN pc : SharpStart(r)
  \/ \E r \in DOMAIN pc : SharpEnd(r)
  \/ \E r \in DOMAIN pc : SendResults(r)

ConcurrentSpec == ConcurrentInit /\ [][ConcurrentNext]_vars
(* ------------------- the metric functions on their own ----------------- *)

\* The server is at rest.
ServerIdle ==
  /\ pc = [r \in Requests |-> "idle"]
  /\ req = [r \in Requests |-> NoReq]
  /\ responses = [r \in Requests |-> <<>>]
  /\ outputDirs = {}
  /\ files = [r \in Requests |-> {}]
  /\ refs = [r \in Requests |-> [zeroCopy |-> NoRef, resize |-> NoRef]]
  /\ opIdx = [r \in Requests |-> 0]
  /\ result = [r \in Requests |-> NoResult]
  /\ catResults = [r \in Requests |-> <<>>]
  /\ results = [r \in Requests |-> <<>>]
  /\ call = [r \in Requests |-> NoCall]
  /\ monitors = [r \in Requests |-> {}]
  /\ invocations = [r \in Requests |-> <<>>]
  /\ metricCalls = [r \in Requests |-> <<>>]
  /\ inFlight = {}
  /\ now = 0
  /\ heapUsed = 0
  /\ events = 0
  /\ timeline = [r \in Requests |-> <<>>]

\* calculatePSNR is about to be called with any two arguments.
MetricsInit ==
  /\ ServerIdle
  /\ refData \in DataArguments
  /\ targetData \in DataArguments
  /\ psnr = Pending
  /\ reported = Pending
  /\ RowIdle
  /\ AppIdle

\* calculatePSNR(refData, targetData) returns.
CallCalculatePSNR ==
  /\ psnr = Pending
  /\ psnr' = calculatePSNR(refData, targetData)
  /\ UNCHANGED << refData, targetData, reported, serverVars, rowVars, appVars >>

\* calculateMetrics builds the psnr of its result.
ReportPSNR ==
  /\ psnr # Pending /\ reported = Pending
  /\ reported' = ReportedPSNR(psnr)
  /\ UNCHANGED << refData, targetData, psnr, serverVars, rowVars, appVars >>

MetricsNext ==
  \/ CallCalculatePSNR
  \/ ReportPSNR

MetricsSpec == MetricsInit /\ [][MetricsNext]_vars

(* --------------------- the rows of the result tables ------------------- *)

\* The ssim (ten-thousandths) and psnr (hundredths of a dB) of the entries a
\* row is rendered from: 0 is what a failed metric computation reports.
SsimValues == {0, 9000, 9010, 9011}

PsnrValues == {0, 2900, 3000}

\* The metrics an entry may carry: none, or ssim and psnr.
RowMetrics == {NoMetrics} \cup [ssim : SsimValues, psnr : PsnrValues]

\* The entries the server can send for library lib: not supported, failed, or
\* a success entry of either server definition.
RowEntries(lib) ==
  { [supported |-> FALSE], ErrorEntry("error") } \cup
  { IF lib = "lazyImage"
      THEN LazyImageEntry(impl, t, 0, sz, mem, Url("r1", lib, 1), q)
      ELSE SharpEntry(impl, t, sz, mem, Url("r1", lib, 1), q) :
    impl \in {1, 2}, t \in 1..MaxMeasure, sz \in 1..MaxMeasure, mem \in 0..1,
    q \in RowMetrics }

\* The result objects a row is rendered from.
Rows ==
  [operation : {"Resize + WebP"},
   lazyImage : RowEntries("lazyImage"),
   sharp : RowEntries("sharp")]

\* value != null, for a field that may be absent (undefined) or null.
NotNull(e, field) == field \in DOMAIN e /\ e[field] # null

\* result.lazyImage?.supported && result.sharp?.supported
\*   && result.lazyImage[field] != null && result.sharp[field] != null
Comparable(res, field) ==
  /\ res.lazyImage.supported /\ res.sharp.supported
  /\ NotNull(res.lazyImage, field) /\ NotNull(res.sharp, field)

\* Mutant of lazyWinsTime: the times are compared without the null checks
\* (null compares as smaller than every time).
lazyWinsTime_NoNullCheck(res) ==
  /\ res.lazyImage.supported /\ res.sharp.supported
  /\ "time" \in DOMAIN res.lazyImage /\ "time" \in DOMAIN res.sharp
  /\ res.lazyImage.time < res.sharp.time

lazyWinsTime(res) ==
  Comparable(res, "time") /\ res.lazyImage.time < res.sharp.time

sharpWinsTime(res) ==
  Comparable(res, "time") /\ res.sharp.time < res.lazyImage.time

lazyWinsSize(res) ==
  Comparable(res, "size") /\ res.lazyImage.size < res.sharp.size

sharpWinsSize(res) ==
  Comparable(res, "size") /\ res.sharp.size < res.lazyImage.size

lazyWinsMemory(res) ==
  Comparable(res, "memoryUsed")
    /\ res.lazyImage.memoryUsed < res.sharp.memoryUsed

sharpWinsMemory(res) ==
  Comparable(res, "memoryUsed")
    /\ res.sharp.memoryUsed < res.lazyImage.memoryUsed

\* result.lazyImage?.ssim || 0: an absent, null or zero value is 0.
OrZero(e, field) == IF NotNull(e, field) THEN e[field] ELSE 0

\* Math.abs
Abs(x) == IF x < 0 THEN -x ELSE x

\* 0.001, in ten-thousandths.
SsimTolerance == 10

\* Which of "ssim" and "psnr" decides the quality winner of a row, if any.
QualityDecider(res) ==
  LET lazySSIM == OrZero(res.lazyImage, "ssim")
      sharpSSIM == OrZero(res.sharp, "ssim")
      lazyPSNR == OrZero(res.lazyImage, "psnr")
      sharpPSNR == OrZero(res.sharp, "psnr")
      ssimDiff == Abs(lazySSIM - sharpSSIM) IN
  IF ssimDiff > SsimTolerance THEN "ssim"
  ELSE IF lazyPSNR > 0 /\ sharpPSNR > 0 THEN "psnr"
  ELSE "none"

\* Mutant of sharpWinsQuality: an equal value wins too.
sharpWinsQuality_OrEqual(res) ==
  /\ QualityDecider(res) # "none"
  /\ OrZero(res.sharp, QualityDecider(res))
       >= OrZero(res.lazyImage, QualityDecider(res))

lazyWinsQuality(res) ==
  /\ QualityDecider(res) # "none"
  /\ OrZero(res.lazyImage, QualityDecider(res))
       > OrZero(res.sharp, QualityDecider(res))

sharpWinsQuality(res) ==
  /\ QualityDecider(res) # "none"
  /\ OrZero(res.sharp, QualityDecider(res))
       > OrZero(res.lazyImage, QualityDecider(res))

\* A row of some result table is about to be rendered.
RowInit ==
  /\ ServerIdle
  /\ MetricsIdle
  /\ AppIdle
  /\ row \in Rows
  /\ flags = Pending

\* The body of category.results.map: the winner flags of the row.
RenderRow ==
  /\ flags = Pending
  /\ flags' = [lazyWinsTime |-> lazyWinsTime(row), sharpWinsTime |-> sharpWinsTime(row),
               lazyWinsSize |-> lazyWinsSize(row), sharpWinsSize |-> sharpWinsSize(row),
               lazyWinsMemory |-> lazyWinsMemory(row),
               sharpWinsMemory |-> sharpWinsMemory(row),
               lazyWinsQuality |-> lazyWinsQuality(row),
               sharpWinsQuality |-> sharpWinsQuality(row)]
  /\ UNCHANGED << row, serverVars, metricVars, appVars >>

RowNext == RenderRow

RowSpec == RowInit /\ [][RowNext]_vars

(* -------------------------------- the page ----------------------------- *)

\* const maxSize = 10 * 1024 * 1024 * 1024, counted in MB.
maxSize == 10240

\* The files a user may pick or drop.
UserFiles ==
  { [name |-> "photo.jpg", type |-> "image/jpeg", sizeMB |-> 2],
    [name |-> "anim.gif", type |-> "image/gif", sizeMB |-> 1],
    [name |-> "doc.pdf", type |-> "application/pdf", sizeMB |-> 1],
    [name |-> "huge.jpg", type |-> "image/jpeg", sizeMB |-> 10241] }

\* The accept attribute of the file input.
inputAccept == {"image/jpeg", "image/png", "image/webp", "image/avif"}

\* The files the file picker offers: the browser filters by the accept
\* attribute.
PickerFiles == { f \in UserFiles : f.type \in inputAccept }

\* file.type.startsWith('image/')
StartsWithImage(type) ==
  type \in {"image/jpeg", "image/png", "image/webp", "image/avif", "image/gif"}

\* formData.append('image', file): the multipart request the server receives.
AsUpload(file) ==
  [kind |-> "file", field |-> "image", mimetype |-> file.type,
   image |-> [format |-> file.type, width |-> 0, height |-> 0, sizeMB |-> file.sizeMB]]

\* The operation names of category c of the suite, in order.
CategoryOperations(c) ==
  LET ops == SelectSeq([i \in 1..NumOps |-> i], LAMBDA i : Operations[i].category = c) IN
  [k \in 1..Len(ops) |-> Operations[ops[k]].operation]

\* The body of a 200 response of the server, as far as the page indexes it.
ResultsBody ==
  [present |-> TRUE,
   categories |-> [c \in 1..3 |-> [name |-> CategoryNames[c],
                                   results |-> CategoryOperations(c)]]]

\* The responses the server may give to a submitted file.
ServerResponses(file) ==
  IF UploadFailed(AsUpload(file))
    THEN { UploadErrorResponse(UploadError(AsUpload(file))) }
    ELSE { [status |-> 200, error |-> ""],
           [status |-> 500, error |-> "metadata error"] }

\* How the promise of handleUpload settles on the load event.
LoadOutcome(response, parsable) ==
  IF response.status >= 200 /\ response.status < 300
    THEN IF parsable
           THEN [ok |-> TRUE, data |-> ResultsBody, message |-> ""]
           ELSE [ok |-> FALSE, data |-> NoResults, message |-> "Invalid JSON response"]
    ELSE [ok |-> FALSE, data |-> NoResults,
          message |-> IF parsable /\ response.error # ""
                        THEN response.error ELSE "HTTP error"]

\* Mutant of SettleRejected: a rejection leaves handleUpload at once.
SettleRejected_Escapes == "finished"

\* Where handleUpload goes when its promise rejects: the catch block.
SettleRejected == "catch"

\* Mutant of FirstPreview: the selection after a successful upload.
FirstPreview_OneBased == [category |-> 1, result |-> 1]

\* setSelectedPreview({ category: 0, result: 0 })
FirstPreview == [category |-> 0, result |-> 0]

\* data.categories?.[0]?.results?.[0]
HasFirstResult(data) ==
  /\ Len(data.categories) >= 1
  /\ Len(data.categories[1].results) >= 1

\* A continuation of handleUpload is running (the event loop takes no other
\* event until it has run to the end of the finally block).
Continuing ==
  \E u \in DOMAIN xhrs : xhrs[u].phase \in {"fulfilled", "select", "catch", "finally"}

\* The handleUpload call a new upload would be.
NextXhr == CHOOSE u \in DOMAIN xhrs :
             xhrs[u].phase = "none" /\ \A v \in 1..(u - 1) : xhrs[v].phase # "none"

\* handleUpload(file), after the caller's setSelectedFile(file).
handleUpload(file) ==
  /\ selectedFile' = file
  /\ IF file.sizeMB > maxSize
       THEN /\ error' = "File size too large. Maximum size is 10GB."
            /\ UNCHANGED << loading, uploadProgress, shown, xhrs, submitted >>
       ELSE /\ loading' = TRUE
            /\ error' = NoMessage
            /\ shown' = NoResults
            /\ uploadProgress' = 0
            /\ xhrs' = [xhrs EXCEPT ![NextXhr] =
                 [phase |-> "sent", file |-> file,
                  outcome |-> [ok |-> FALSE, data |-> NoResults, message |-> ""]]]
            /\ submitted' = Append(submitted, file)
  /\ UNCHANGED selectedPreview

\* The user may start another upload.
CanUpload == ~Continuing /\ \E u \in DOMAIN xhrs : xhrs[u].phase = "none"

\* The onChange handler of the file input.
handleFileChange ==
  /\ CanUpload
  /\ \E file \in PickerFiles \cup {NoFile} :
       IF file # NoFile
         THEN handleUpload(file)
         ELSE /\ selectedFile' = NoFile
              /\ UNCHANGED << loading, uploadProgress, error, shown, selectedPreview,
                              xhrs, submitted >>
  /\ UNCHANGED << serverVars, metricVars, rowVars >>

\* The onDrop handler of the uploader.
handleDrop ==
  /\ CanUpload
  /\ \E file \in UserFiles \cup {NoFile} :
       IF file # NoFile /\ StartsWithImage(file.type)
         THEN handleUpload(file)
         ELSE UNCHANGED appVars
  /\ UNCHANGED << serverVars, metricVars, rowVars >>

\* The progress event of the upload (lengthComputable).
Progress(u) ==
  /\ ~Continuing /\ xhrs[u].phase = "sent"
  /\ \E percentComplete \in {50, 100} : uploadProgress' = percentComplete
  /\ UNCHANGED << loading, error, shown, selectedPreview, selectedFile, xhrs, submitted >>
  /\ UNCHANGED << serverVars, metricVars, rowVars >>

\* The request ends: the load, error or abort event.
Settle(u) ==
  /\ ~Continuing /\ xhrs[u].phase = "sent"
  /\ \E outcome \in
        { LoadOutcome(res, parsable) :
            res \in ServerResponses(xhrs[u].file), parsable \in BOOLEAN }
        \cup { [ok |-> FALSE, data |-> NoResults, message |-> "Network error"],
               [ok |-> FALSE, data |-> NoResults, message |-> "Upload aborted"] } :
       xhrs' = [xhrs EXCEPT ![u].outcome = outcome,
                            ![u].phase = IF outcome.ok THEN "fulfilled" ELSE SettleRejected]
  /\ UNCHANGED << loading, uploadProgress, error, shown, selectedPreview, selectedFile,
                  submitted >>
  /\ UNCHANGED << serverVars, metricVars, rowVars >>

\* setResults(data); setUploadProgress(100)
ShowResults(u) ==
  /\ xhrs[u].phase = "fulfilled"
  /\ shown' = xhrs[u].outcome.data
  /\ uploadProgress' = 100
  /\ xhrs' = [xhrs EXCEPT ![u].phase = "select"]
  /\ UNCHANGED << loading, error, selectedPreview, selectedFile, submitted >>
  /\ UNCHANGED << serverVars, metricVars, rowVars >>

\* if (data.categories?.[0]?.results?.[0]) setSelectedPreview(...)
SelectFirst(u) ==
  /\ xhrs[u].phase = "select"
  /\ selectedPreview' =
       IF HasFirstResult(xhrs[u].outcome.data) THEN FirstPreview ELSE selectedPreview
  /\ xhrs' = [xhrs EXCEPT ![u].phase = "finally"]
  /\ UNCHANGED << loading, uploadProgress, error, shown, selectedFile, submitted >>
  /\ UNCHANGED << serverVars, metricVars, rowVars >>

\* catch (err) { setError(err.message) }
Catch(u) ==
  /\ xhrs[u].phase = "catch"
  /\ error' = xhrs[u].outcome.message
  /\ xhrs' = [xhrs EXCEPT ![u].phase = "finally"]
  /\ UNCHANGED << loading, uploadProgress, shown, selectedPreview, selectedFile, submitted >>
  /\ UNCHANGED << serverVars, metricVars, rowVars >>

\* finally { setLoading(false); setUploadProgress(0) }
Finally(u) ==
  /\ xhrs[u].phase = "finally"
  /\ loading' = FALSE
  /\ uploadProgress' = 0
  /\ xhrs' = [xhrs EXCEPT ![u].phase = "finished"]
  /\ UNCHANGED << error, shown, selectedPreview, selectedFile, submitted >>
  /\ UNCHANGED << serverVars, metricVars, rowVars >>

\* A click on a row of a result table or on a tab of the preview.
ClickRow ==
  /\ ~Continuing /\ shown.present
  /\ \E catIdx \in 0..(Len(shown.categories) - 1) :
       \E resIdx \in 0..(Len(shown.categories[catIdx + 1].results) - 1) :
         selectedPreview' = [category |-> catIdx, result |-> resIdx]
  /\ UNCHANGED << loading, uploadProgress, error, shown, selectedFile, xhrs, submitted >>
  /\ UNCHANGED << serverVars, metricVars, rowVars >>

AppInit == ServerIdle /\ MetricsIdle /\ RowIdle /\ AppIdle

AppNext ==
  \/ handleFileChange
  \/ handleDrop
  \/ ClickRow
  \/ \E u \in DOMAIN xhrs : Progress(u)
  \/ \E u \in DOMAIN xhrs : Settle(u)
  \/ \E u \in DOMAIN xhrs : ShowResults(u)
  \/ \E u \in DOMAIN xhrs : SelectFirst(u)
  \/ \E u \in DOMAIN xhrs : Catch(u)
  \/ \E u \in DOMAIN xhrs : Finally(u)

AppSpec == AppInit /\ [][AppNext]_vars

\* Every request ends (load, error or abort), and a continuation of
\* handleUpload runs to its end.
AppFairSpec ==
  /\ AppSpec
  /\ \A u \in 1..MaxUploads :
       WF_vars(Settle(u) \/ ShowResults(u) \/ SelectFirst(u) \/ Catch(u) \/ Finally(u))


(* ============================== the claims ============================= *)

\* The results of the operations a run has finished, in the order they were
\* pushed: those of the pushed categories, then the running category's.
RECURSIVE Flatten(_)
Flatten(cats) ==
  IF cats = <<>> THEN <<>> ELSE cats[1].results \o Flatten(Tail(cats))

Completed(r) == Flatten(results[r]) \o catResults[r]

\* runBenchmark has resolved: it is about to return results, or the handler
\* has sent them.
Resolved(r) ==
  \/ pc[r] = "return"
  \/ pc[r] = "done" /\ responses[r] # <<>> /\ responses[r][1].status = 200

HasError(e) == "error" \in DOMAIN e

\* An entry written by a block that ran to its end.
Succeeded(e) == "time" \in DOMAIN e /\ ~HasError(e)

Invoked(r, i, lib) ==
  \E k \in 1..Len(invocations[r]) :
    invocations[r][k].op = i /\ invocations[r][k].lib = lib

OperationNames(cat) == [k \in 1..Len(cat.results) |-> cat.results[k].operation]

\* C1: every run whose runBenchmark call resolves returns exactly three
\* categories, in the order zero-copy, resize, advanced, holding the 3, 3 and 5
\* operation results in their fixed order, whichever library calls failed.
C1_FixedSuite ==
  \A r \in DOMAIN pc :
    Resolved(r) =>
      /\ Len(results[r]) = 3
      /\ [c \in 1..3 |-> results[r][c].name] =
           << "Zero-Copy Conversion (No Resize)",
              "Resize + Format Conversion",
              "Advanced Image Operations" >>
      /\ OperationNames(results[r][1]) =
           << "WebP Conversion (No Resize)", "AVIF Conversion (No Resize)",
              "JPEG Compression (No Resize)" >>
      /\ OperationNames(results[r][2]) =
           << "Resize + WebP", "Resize + AVIF", "Resize + JPEG" >>
      /\ OperationNames(results[r][3]) =
           << "PNG Compression", "90 Rotation", "Crop (Center 50%)",
              "Blur (sigma: 5)", "Grayscale" >>
      /\ pc[r] = "done" => responses[r][1].categories = results[r]

\* C1 witness: a run has resolved although one of its library calls failed.
C1_Witness ==
  \E r \in DOMAIN pc :
    /\ Resolved(r)
    /\ \E k \in 1..Len(Completed(r)) :
         HasError(Completed(r)[k].lazyImage) \/ HasError(Completed(r)[k].sharp)

\* C2: a throw inside a library block of runSingleTest is caught and reported
\* in that library's entry as {supported: true, error, time: null, size: null};
\* the sharp call of the same operation is still made, every later operation is
\* still run, and the run does not fail (no 500 once the suite has started).
C2_FailurePerOperation ==
  \A r \in DOMAIN pc :
    /\ \A k \in 1..Len(Completed(r)) : \A lib \in Libraries :
         LET e == Completed(r)[k][lib] IN
         HasError(e) =>
           /\ DOMAIN e = {"supported", "error", "time", "size"}
           /\ e.supported = TRUE /\ e.time = null /\ e.size = null
    /\ ("lazyImage" \in DOMAIN result[r] /\ HasError(result[r].lazyImage)) =>
         /\ DOMAIN result[r].lazyImage = {"supported", "error", "time", "size"}
         /\ result[r].lazyImage.time = null /\ result[r].lazyImage.size = null
         /\ pc[r] \in {"sharp", "sharpCall"}
    /\ \A k \in 1..Len(Completed(r)) : Invoked(r, k, "sharp")
    /\ opIdx[r] > 0 => Len(Completed(r)) \in {opIdx[r] - 1, opIdx[r]}
    /\ (pc[r] = "done" /\ opIdx[r] > 0) =>
         /\ Len(Completed(r)) = NumOps
         /\ responses[r][1].status = 200

\* C2 witness: a run has finished in which lazy-image failed in an operation
\* whose sharp call succeeded, with operations after it.
C2_Witness ==
  \E r \in DOMAIN pc :
    /\ pc[r] = "done" /\ Len(Completed(r)) = NumOps
    /\ \E k \in 1..(NumOps - 1) :
         /\ HasError(Completed(r)[k].lazyImage)
         /\ Succeeded(Completed(r)[k].sharp)
         /\ Succeeded(Completed(r)[k + 1].sharp)

\* The library calls of run r in progress.
InFlightOf(r) == { x \in inFlight : x[1] = r }

\* C3: within one run the library calls are strictly sequential: at most one is
\* in progress, they start in suite order, and the lazy-image call of an
\* operation has completed or failed before its sharp call starts.
C3_Sequential ==
  \A r \in DOMAIN pc :
    /\ Cardinality(InFlightOf(r)) <= 1
    /\ \A k, l \in 1..Len(invocations[r]) :
         k < l =>
           \/ invocations[r][k].op < invocations[r][l].op
           \/ /\ invocations[r][k].op = invocations[r][l].op
              /\ invocations[r][k].lib = "lazyImage"
              /\ invocations[r][l].lib = "sharp"
    /\ \A i \in 1..NumOps :
         (Invoked(r, i, "lazyImage") /\ Invoked(r, i, "sharp")) =>
           /\ <<r, i, "lazyImage">> \notin inFlight
           /\ i = opIdx[r] /\ pc[r] = "sharpCall" =>
                (Succeeded(result[r].lazyImage) \/ HasError(result[r].lazyImage))

\* C3 witness: the sharp call of an operation is in progress after the
\* lazy-image call of the same operation was made.
C3_Witness ==
  \E r \in DOMAIN pc : \E i \in 1..NumOps :
    /\ <<r, i, "sharp">> \in inFlight
    /\ Invoked(r, i, "lazyImage")
    /\ i > 1

\* C4: in the zero-copy and the resize operations both libraries are invoked
\* with the same output format and quality: WebP 80, AVIF 60, JPEG 80.
C4_MatchedQuality ==
  \A r \in DOMAIN pc : \A k \in 1..Len(invocations[r]) :
    LET v == invocations[r][k] IN
    v.op <= 6 =>
      /\ <<v.format, v.quality>> =
           << <<"webp", 80>>, <<"avif", 60>>, <<"jpeg", 80>>,
              <<"webp", 80>>, <<"avif", 60>>, <<"jpeg", 80>> >>[v.op]
      /\ \A l \in 1..Len(invocations[r]) :
           invocations[r][l].op = v.op =>
             /\ invocations[r][l].format = v.format
             /\ invocations[r][l].quality = v.quality

\* C4 witness: both libraries were invoked for the Resize + AVIF operation.
C4_Witness ==
  \E r \in DOMAIN pc : Invoked(r, 5, "lazyImage") /\ Invoked(r, 5, "sharp")

\* The invocations of run r for operation i by library lib.
InvocationsOf(r, i, lib) ==
  { k \in 1..Len(invocations[r]) :
      invocations[r][k].op = i /\ invocations[r][k].lib = lib }

\* C5: in the three resize operations of the current server definition the
\* output width and height lazy-image is asked for (resize(800, null)) equal
\* the ones sharp is asked for (resize(800, 600, fit 'inside')), whatever the
\* width and height of the input.
C5_SameTargetDimensions ==
  \A r \in DOMAIN pc :
    req[r].impl = 1 =>
      \A k, l \in 1..Len(invocations[r]) :
        (invocations[r][k].op = invocations[r][l].op
           /\ Operations[invocations[r][k].op].category = 2) =>
          invocations[r][k].dims = invocations[r][l].dims

\* The library entries of the operations run r has finished.
Entries(r) ==
  { << k, lib >> : k \in 1..Len(Completed(r)), lib \in Libraries }

ReferencePrepared(r, c) ==
  \/ c = 1 /\ refs[r].zeroCopy # NoRef
  \/ c = 2 /\ refs[r].resize # NoRef

\* C7: an entry carries ssim and psnr if and only if its library block
\* succeeded and reference data was prepared for its category; calculateMetrics
\* is given the reference of the unresized original in the zero-copy
\* operations and the 800x600 reference in the resize operations, and is never
\* called in the advanced category.
C7_MetricsNeedReference ==
  \A r \in DOMAIN pc :
    /\ \A x \in Entries(r) :
         LET e == Completed(r)[x[1]][x[2]]
             c == Operations[x[1]].category IN
         /\ "ssim" \in DOMAIN e <=> "psnr" \in DOMAIN e
         /\ "ssim" \in DOMAIN e <=> (Succeeded(e) /\ ReferencePrepared(r, c))
         /\ c = 3 => "ssim" \notin DOMAIN e /\ "psnr" \notin DOMAIN e
    /\ \A k \in 1..Len(metricCalls[r]) :
         LET m == metricCalls[r][k]
             c == Operations[m.op].category IN
         /\ c \in {1, 2}
         /\ c = 1 => m.ref = [width |-> Image(r).width, height |-> Image(r).height]
         /\ c = 2 => m.ref = [width |-> 800, height |-> 600]

\* C7 witness: a finished run in which a zero-copy entry and a resize entry
\* carry ssim, and a resize entry of a failed call carries none.
C7_Witness ==
  \E r \in DOMAIN pc :
    /\ Len(Completed(r)) = NumOps
    /\ "ssim" \in DOMAIN Completed(r)[1].sharp
    /\ "ssim" \in DOMAIN Completed(r)[4].lazyImage
    /\ Succeeded(Completed(r)[7].sharp)
    /\ \E k \in 4..6 : HasError(Completed(r)[k].sharp)

\* C8: in the operations of the advanced category lazyImageFn is never called
\* and the lazy-image entry is exactly {supported: false}, while sharpFn is
\* called; in the zero-copy and resize operations both entries have
\* supported = true.
C8_AdvancedSharpOnly ==
  \A r \in DOMAIN pc :
    /\ \A i \in 1..NumOps :
         Operations[i].category = 3 => ~Invoked(r, i, "lazyImage")
    /\ \A k \in 1..Len(Completed(r)) :
         LET res == Completed(r)[k] IN
         IF Operations[k].category = 3
           THEN /\ res.lazyImage = [supported |-> FALSE]
                /\ Cardinality(InvocationsOf(r, k, "sharp")) = 1
                /\ res.sharp.supported = TRUE
                /\ Succeeded(res.sharp) \/ HasError(res.sharp)
           ELSE /\ res.lazyImage.supported = TRUE
                /\ res.sharp.supported = TRUE
    /\ ("lazyImage" \in DOMAIN result[r] /\ Operations[opIdx[r]].category = 3) =>
         /\ result[r].lazyImage = [supported |-> FALSE]
         /\ pc[r] \in {"sharp", "sharpCall"}

\* C8 witness: the five advanced operations have finished, sharp having
\* succeeded in them.
C8_Witness ==
  \E r \in DOMAIN pc :
    /\ Len(Completed(r)) = NumOps
    /\ \A k \in 7..NumOps :
         Succeeded(Completed(r)[k].sharp) /\ Completed(r)[k].lazyImage = [supported |-> FALSE]

\* The upload exceeds the size limit and nothing else is wrong with it.
TooLarge(u) ==
  /\ u.kind = "file" /\ u.field = "image" /\ u.mimetype \in allowedTypes
  /\ u.image.sizeMB > FileSizeLimitMB

\* No benchmark run was started for r.
NoRun(r) ==
  /\ r \notin outputDirs
  /\ invocations[r] = <<>> /\ results[r] = <<>> /\ files[r] = {}
  /\ opIdx[r] = 0

\* What C9 says of a state: how many responses were sent and which.
C9_Responses ==
  \A r \in DOMAIN pc :
    LET u == req[r].upload IN
    /\ Len(responses[r]) <= 1
    /\ pc[r] = "done" <=> Len(responses[r]) = 1
    /\ pc[r] = "done" =>
         LET res == responses[r][1] IN
         /\ res.status \in {200, 400, 413, 500}
         /\ res.status = 413 <=> TooLarge(u)
         /\ res.status = 400 <=> (~TooLarge(u) /\ (UploadFailed(u) \/ ~HasFile(u)))
         /\ res.status \in {400, 413} => NoRun(r) /\ "error" \in DOMAIN res
         /\ res.status = 500 =>
              /\ r \in outputDirs /\ Len(results[r]) < 3
              /\ DOMAIN res = {"status", "error"}
         /\ res.status = 200 =>
              /\ r \in outputDirs /\ Len(results[r]) = 3
              /\ res.categories = results[r]
    /\ pc[r] \notin {"idle", "upload", "handler", "done"} => r \in outputDirs

ReachesFilter(u) == u.kind = "file" /\ u.field = "image"

\* C10: an uploaded file passes the file filter if and only if its MIME type
\* is image/jpeg, image/png, image/webp or image/avif; a file of any other
\* type is answered with 400 and 'Invalid file type. Only JPEG, PNG, WebP,
\* AVIF are allowed.' and no benchmark run is started for it.
C10_FileFilter ==
  \A r \in DOMAIN pc :
    LET u == req[r].upload IN
    (pc[r] \notin {"idle", "upload"} /\ ReachesFilter(u)) =>
      IF u.mimetype \in {"image/jpeg", "image/png", "image/webp", "image/avif"}
        THEN /\ \A k \in 1..Len(responses[r]) :
                  "error" \in DOMAIN responses[r][k] =>
                    responses[r][k].error # InvalidFileTypeMessage
             /\ u.image.sizeMB <= FileSizeLimitMB => r \in outputDirs \/ pc[r] = "handler"
        ELSE /\ responses[r] =
                  << [status |-> 400,
                      error |-> "Invalid file type. Only JPEG, PNG, WebP, AVIF are allowed."] >>
             /\ pc[r] = "done"
             /\ NoRun(r)

\* C10 witness: a GIF upload has been answered with the invalid-type message.
C10_Witness ==
  \E r \in DOMAIN pc :
    /\ pc[r] = "done"
    /\ ReachesFilter(req[r].upload) /\ req[r].upload.mimetype = "image/gif"
    /\ responses[r][1].error = InvalidFileTypeMessage

\* A measured library call of run r is awaited (the monitor interval runs).
Monitoring(r) == pc[r] \in {"lazyCall", "sharpCall"} /\ req[r].impl = 1

\* The entry the block of run r that ends in this step writes.
EntryWritten(r) ==
  IF call[r].lib = "lazyImage"
    THEN result'[r].lazyImage
    ELSE Completed(r)'[Len(Completed(r)')].sharp

\* What C11 says of one step of a measured call: the monitor starts with the
\* initial heap reading, a poll keeps the larger of the peak and its sample,
\* and the entry reports the peak including the reading after the call, less
\* the initial reading.
C11_Step ==
  \A r \in DOMAIN pc :
    req'[r].impl = 1 =>
      /\ (~Monitoring(r) /\ Monitoring(r)') =>
           /\ call'[r].initialHeapUsed = heapUsed'
           /\ call'[r].peakMemory = heapUsed'
      /\ (Monitoring(r) /\ Monitoring(r)') =>
           /\ call'[r].initialHeapUsed = call[r].initialHeapUsed
           /\ call'[r].peakMemory >= call[r].peakMemory
           /\ call'[r].peakMemory = Max(call[r].peakMemory, heapUsed')
      /\ (Monitoring(r) /\ ~Monitoring(r)'
            /\ ~HasError(EntryWritten(r))) =>
           LET peak == Max(Max(call[r].initialHeapUsed, call[r].peakMemory), heapUsed') IN
           /\ peak - call[r].initialHeapUsed >= 0
           /\ EntryWritten(r).memoryUsed =
                RoundHalves(peak - call[r].initialHeapUsed)

StepAt(r, step) ==
  IF \E k \in 1..Len(timeline[r]) : timeline[r][k] = step
    THEN CHOOSE k \in 1..Len(timeline[r]) :
           /\ timeline[r][k] = step
           /\ \A l \in 1..(k - 1) : timeline[r][l] # step
    ELSE 0

\* A step of the block was taken between the two timestamps of the call.
Timed(r, k) == StepAt(r, "startTime") < k /\ k < StepAt(r, "endTime")

\* C12: in the current server definition the timed interval of a block that
\* ran to its end covers opening the input, processing and writing the output,
\* for lazy-image as for sharp, and leaves out the AVIF-to-JPEG conversion, the
\* output size read and the metric computation.
C12_SameTimedSteps ==
  \A r \in DOMAIN pc :
    (req[r].impl = 1 /\ StepAt(r, "endTime") > 0) =>
      /\ \A step \in {"open", "process", "write"} : Timed(r, StepAt(r, step))
      /\ \A k \in 1..Len(timeline[r]) :
           timeline[r][k] \in {"avifConversion", "readSize", "metrics"} => ~Timed(r, k)

\* runBenchmark of run r, in the current definition, is past the preparation
\* of the reference data.
PastReferences(r) == req[r].impl = 1 /\ opIdx[r] > 0

\* No entry of the finished operations from..to carries a metric.
NoMetricsIn(r, from, to) ==
  \A k \in from..to : \A lib \in Libraries :
    k <= Len(Completed(r)) =>
      /\ "ssim" \notin DOMAIN Completed(r)[k][lib]
      /\ "psnr" \notin DOMAIN Completed(r)[k][lib]

\* Every successful entry of the finished operations from..to carries metrics.
MetricsIn(r, from, to) ==
  \A k \in from..to : \A lib \in Libraries :
    (k <= Len(Completed(r)) /\ Succeeded(Completed(r)[k][lib])) =>
      {"ssim", "psnr"} \subseteq DOMAIN Completed(r)[k][lib]

\* What C13 says of a state past the preparation.
C13_State ==
  \A r \in DOMAIN pc :
    PastReferences(r) =>
      /\ Image(r).sizeMB >= 50 => refs[r].zeroCopy = NoRef
      /\ refs[r].zeroCopy = NoRef => NoMetricsIn(r, 1, 3)
      /\ refs[r].zeroCopy # NoRef => MetricsIn(r, 1, 3)
      /\ refs[r].resize = NoRef => NoMetricsIn(r, 4, 6)
      /\ refs[r].resize # NoRef => MetricsIn(r, 4, 6)
      /\ pc[r] = "done" =>
           /\ responses[r][1].status = 200
           /\ Len(Completed(r)) = 11
           /\ \A k \in 1..11 : Invoked(r, k, "sharp")
           /\ \A k \in 1..6 :
                Succeeded(Completed(r)[k].lazyImage) \/ HasError(Completed(r)[k].lazyImage)

\* What C13 says of the preparation step: it always hands over to the first
\* operation, and without a throw it prepares the resize reference and, for an
\* upload under 50MB, the zero-copy reference.
C13_Step ==
  \A r \in DOMAIN pc :
    (pc[r] = "refs" /\ pc'[r] # "refs") =>
      /\ pc'[r] = "lazy" /\ opIdx'[r] = 1 /\ responses'[r] = << >>
      /\ events' = events =>
           /\ refs'[r].resize = [width |-> 800, height |-> 600]
           /\ Image(r).sizeMB < 50 =>
                refs'[r].zeroCopy = [width |-> Image(r).width, height |-> Image(r).height]
      /\ events' # events => refs'[r].resize = NoRef

EntryOf(r, i, lib) ==
  IF i <= Len(Completed(r)) THEN Completed(r)[i][lib] ELSE result[r][lib]

\* C14: a failure while computing metrics never marks the operation as failed:
\* calculateMetrics returns {psnr: 0, ssim: 0}, and the entry keeps its time,
\* size, memoryUsed and url and carries no error.
C14_MetricFailure ==
  \A r \in DOMAIN pc : \A k \in 1..Len(metricCalls[r]) :
    LET m == metricCalls[r][k]
        e == EntryOf(r, m.op, m.lib) IN
    /\ Succeeded(e)
    /\ {"time", "size", "memoryUsed", "url", "psnr", "ssim"} \subseteq DOMAIN e
    /\ m.failed =>
         /\ e.psnr = 0 /\ e.ssim = 0
         /\ "error" \notin DOMAIN e
         /\ e.time >= 0 /\ e.memoryUsed >= 0
         /\ e.size = OutputLength(m.op, m.lib, Image(r))
         /\ e.url = Url(r, m.lib, m.op)
    /\ ~m.failed => e.psnr > 0 /\ e.ssim > 0

\* C14 witness: the metrics of a lazy-image output failed, the entry reports
\* zeros, and the sharp call of the operation has since been reported too.
C14_Witness ==
  \E r \in DOMAIN pc : \E k \in 1..Len(metricCalls[r]) :
    /\ metricCalls[r][k].failed
    /\ metricCalls[r][k].lib = "lazyImage"
    /\ metricCalls[r][k].op <= Len(Completed(r))
    /\ Completed(r)[metricCalls[r][k].op].lazyImage.psnr = 0
    /\ Succeeded(Completed(r)[metricCalls[r][k].op].sharp)

\* The two arguments are arrays with the same elements.
Identical(a, b) == a.present /\ b.present /\ a.data = b.data

RowValue(lib, field) ==
  IF field \in DOMAIN row[lib] /\ row[lib][field] # null THEN row[lib][field] ELSE 0

FlagsOf(field) ==
  CASE field = "time" -> << flags.lazyWinsTime, flags.sharpWinsTime >>
    [] field = "size" -> << flags.lazyWinsSize, flags.sharpWinsSize >>
    [] field = "memoryUsed" -> << flags.lazyWinsMemory, flags.sharpWinsMemory >>

\* The entry of the rendered row has a value for the measure.
HasValue(lib, field) ==
  row[lib].supported /\ field \in DOMAIN row[lib] /\ row[lib][field] >= 0

\* C17: for each of time, size and memory at most one library is marked the
\* winner of a row, none on a tie, none when either library is unsupported or
\* its value is null, and the winner is the one with the strictly smaller value.
C17_MeasureWinners ==
  flags # Pending =>
    \A field \in {"time", "size", "memoryUsed"} :
      LET lazyWins == FlagsOf(field)[1]
          sharpWins == FlagsOf(field)[2]
          both == HasValue("lazyImage", field) /\ HasValue("sharp", field) IN
      /\ ~(lazyWins /\ sharpWins)
      /\ ~both => ~lazyWins /\ ~sharpWins
      /\ both =>
           /\ lazyWins <=> row.lazyImage[field] < row.sharp[field]
           /\ sharpWins <=> row.sharp[field] < row.lazyImage[field]
           /\ row.lazyImage[field] = row.sharp[field] => ~lazyWins /\ ~sharpWins

\* C17 witness: a row whose lazy-image call failed (time and size null) and
\* whose sharp call succeeded has been rendered without any winner.
C17_Witness ==
  /\ flags # Pending
  /\ HasError(row.lazyImage) /\ row.lazyImage.time = null
  /\ Succeeded(row.sharp)
  /\ \A field \in {"time", "size", "memoryUsed"} : FlagsOf(field) = << FALSE, FALSE >>


\* An upload of the page has passed the size check and not yet reached the
\* end of handleUpload.
Started(u) == xhrs[u].phase \notin {"none", "finished"}

\* The ways a request of the page can end.
RequestEndings ==
  { "", "HTTP error", "Invalid JSON response", "Network error", "Upload aborted",
    InvalidFileTypeMessage, "metadata error" }

C18_Step ==
  \A u \in 1..MaxUploads :
    /\ (xhrs[u].phase = "none" /\ xhrs'[u].phase # "none") =>
         xhrs'[u].phase = "sent" /\ loading'
    /\ (Started(u) /\ xhrs'[u].phase = "finished") =>
         /\ xhrs[u].outcome.message \in RequestEndings
         /\ ~loading' /\ uploadProgress' = 0

\* C18: every upload that handleUpload starts after the size check sets
\* loading to true, and eventually reaches the end of handleUpload, where
\* loading is set to false and uploadProgress to 0, whichever way the request
\* ends (2xx, non-2xx, unparsable body, network error, abort).
C18_LoadingCleared ==
  /\ [][C18_Step]_vars
  /\ \A u \in 1..MaxUploads : (xhrs[u].phase = "sent") ~> (xhrs[u].phase = "finished")

C18_Witness ==
  /\ \A u \in 1..MaxUploads : xhrs[u].phase = "finished"
  /\ xhrs[1].outcome.message = "Upload aborted"
  /\ xhrs[2].outcome.ok
  /\ ~loading /\ uploadProgress = 0

\* selectedPreview names an existing row of the displayed results.
ValidPreview ==
  /\ selectedPreview.category \in 0..(Len(shown.categories) - 1)
  /\ selectedPreview.result \in
       0..(Len(shown.categories[selectedPreview.category + 1].results) - 1)

\* C19: whenever results are displayed and selectedPreview is set, it names
\* an existing category index and an existing result index of those results;
\* when a successful upload has run its selection, the results displayed are
\* its results and selectedPreview is the first result of the first category.
C19_SelectedPreview ==
  /\ (shown.present /\ selectedPreview # NoPreview) => ValidPreview
  /\ \A u \in 1..MaxUploads :
       (xhrs[u].phase = "finally" /\ xhrs[u].outcome.ok) =>
         /\ shown = xhrs[u].outcome.data
         /\ selectedPreview = [category |-> 0, result |-> 0]
         /\ ValidPreview

C19_Witness ==
  /\ xhrs[1].phase = "finished" /\ xhrs[1].outcome.ok
  /\ xhrs[2].phase = "finally" /\ xhrs[2].outcome.ok
  /\ shown.present
  /\ selectedPreview = [category |-> 0, result |-> 0]

\* C20: every file the page submits to /api/benchmark, picked or dropped,
\* has a type the backend accepts.
C20_SubmittedTypes ==
  \A k \in 1..Len(submitted) : submitted[k].type \in allowedTypes


\* Run r is between the initial heap/time sample and the final heap/time
\* sample of one of its operations (its library call is awaited).
BetweenSamples(r) == pc[r] \in {"lazyCall", "sharpCall"}

\* C21: when several uploads are benchmarked at the same time, no library
\* call of one run executes between the initial and the final heap/time sample
\* of another run's operation.
C21_NoInterleaving ==
  \A r \in DOMAIN pc, other \in DOMAIN pc :
    (r # other /\ BetweenSamples(r)) => InFlightOf(other) = {}

=============================================================================
